---------------------------- MODULE Spec2Model ----------------------------
(***************************************************************************)
(* Task API of the To-Do List application (tasks_api).                     *)
(*                                                                         *)
(* The model follows one HTTP request at a time through TasksViewSet:      *)
(* authentication (IsAuthenticated), get_queryset, the object lookup,      *)
(* IsOwnerOrReadOnly.has_object_permission, TasksSerializer validation     *)
(* and the write to the Task table.  A request is handled from the idle    *)
(* state (no request in flight); Return hands the response back and        *)
(* makes the API idle again.  ConcSpec instead lets two workers handle     *)
(* updates at the same time, each as the read of the instance followed     *)
(* later by its save.                                                      *)
(*                                                                         *)
(* Texts (title, description) are sequences of character codes, so that    *)
(* length and lexicographic order are computed, not assumed.               *)
(***************************************************************************)
EXTENDS Integers, Sequences, FiniteSets, TLC

VARIABLES
    tasks,      \* the Task table: primary key -> row [title, description, status, user]
    nextId,     \* the next value of the auto-increment primary key
    request,    \* the request in flight, NoRequest when idle
    response,   \* the response to it, NoResponse when idle
    inflight    \* per worker: the update it is in the middle of (concurrent handling)

vars == <<tasks, nextId, request, response, inflight>>

---------------------------------------------------------------------------
(* Bounds of the model *)

\* primary keys 1..MaxId are handed out; create is disabled after that
MaxId == 2

---------------------------------------------------------------------------
(* Users and callers *)

\* two regular users and one superuser (is_staff)
Users == {"alice", "bob", "admin"}

\* request.user of a request without valid credentials
AnonymousUser == "anonymous"

Callers == Users \cup {AnonymousUser}

is_staff(user) == user = "admin"

is_authenticated(user) == user \in Users

---------------------------------------------------------------------------
(* Task model: models.py *)

STATUS_CHOICES == {"New", "In Progress", "Completed"}

\* CharField(max_length=255)
title_max_length == 255

\* JSON null / SQL NULL: the one text holding code 0, which no real text holds
Null == <<0>>

\* a status field whose default is not the first choice
status_default_in_progress == "In Progress"

\* default='New'
status_default == "New"

\* the fields of a Task row a request may carry
PayloadFields == {"title", "description", "status", "user"}

---------------------------------------------------------------------------
(* Input texts *)

T1 == <<1>>
T2 == <<2>>
Blank == <<>>

\* a title of exactly max_length characters, and one character more
Full == [i \in 1..title_max_length |-> 1]
TooLong == [i \in 1..(title_max_length + 1) |-> 1]

Ids == 1..MaxId

\* request bodies: a JSON object carrying any subset of the fields
Payloads ==
    { [title |-> T1],
      [title |-> T2, status |-> "Completed"],
      [status |-> "Completed"],
      [title |-> T1, user |-> "alice"],
      [title |-> Blank],
      [title |-> TooLong],
      [status |-> "Bogus"] }

EmptyPayload == [f \in {} |-> Null]

\* ?status= query parameter of a list request; NoFilter when absent
NoFilter == "none"
Filters == {NoFilter} \cup STATUS_CHOICES

NoRequest == [action |-> "none", user |-> AnonymousUser, pk |-> 0,
              data |-> EmptyPayload, filter |-> NoFilter]

\* a response: its signal, the serialized tasks of its body, the rejected fields
NoResponse == [code |-> "none", data |-> <<>>, errors |-> {}]

---------------------------------------------------------------------------
(* permissions.py *)

SAFE_METHODS == {"GET", "HEAD", "OPTIONS"}

\* the HTTP method the router maps to each viewset action
http_method(action) ==
    CASE action = "list" -> "GET"
      [] action = "retrieve" -> "GET"
      [] action = "create" -> "POST"
      [] action = "update" -> "PUT"
      [] action = "partial_update" -> "PATCH"
      [] action = "destroy" -> "DELETE"

\* has_object_permission that lets administrators write as well
has_object_permission_staff(method, user, obj) ==
    IF method \in SAFE_METHODS
    THEN TRUE
    ELSE obj.user = user \/ is_staff(user)

\* has_object_permission that is read-only for everyone, the owner included
has_object_permission_read_only(method, user, obj) == method \in SAFE_METHODS

\* IsOwnerOrReadOnly.has_object_permission
has_object_permission(method, user, obj) ==
    IF method \in SAFE_METHODS
    THEN TRUE
    ELSE obj.user = user

---------------------------------------------------------------------------
(* views.py *)

\* get_queryset without the owner filter: everyone gets Task.objects.all()
get_queryset_all(user, store) == DOMAIN store

\* get_queryset without the is_staff branch: everyone gets their own tasks
get_queryset_own(user, store) == {pk \in DOMAIN store : store[pk].user = user}

\* TasksViewSet.get_queryset: the primary keys of the rows in the queryset
get_queryset(user, store) ==
    IF is_staff(user)
    THEN DOMAIN store
    ELSE {pk \in DOMAIN store : store[pk].user = user}

\* a filter backend that ignores the status parameter
filter_queryset_ignored(queryset, store, filter) == queryset

\* DjangoFilterBackend with filterset_fields = ['status']
filter_queryset(queryset, store, filter) ==
    IF filter = NoFilter
    THEN queryset
    ELSE {pk \in queryset : store[pk].status = filter}

\* lexicographic comparison of two texts
RECURSIVE title_le(_, _)
title_le(a, b) ==
    IF a = <<>> THEN TRUE
    ELSE IF b = <<>> THEN FALSE
    ELSE IF Head(a) = Head(b) THEN title_le(Tail(a), Tail(b))
    ELSE Head(a) < Head(b)

\* a queryset without order_by: the rows come in primary-key order
order_by_pk(queryset, store) ==
    LET n == Cardinality(queryset) IN
    {s \in [1..n -> queryset] : \A i, j \in 1..n : i < j => s[i] < s[j]}

\* .order_by('title'): every order of the rows that is ascending in title
\* (rows with equal titles come in an order the database chooses)
order_by_title(queryset, store) ==
    LET n == Cardinality(queryset) IN
    {s \in [1..n -> queryset] :
        /\ \A i, j \in 1..n : i # j => s[i] # s[j]
        /\ \A i \in 1..(n - 1) : title_le(store[s[i]].title, store[s[i + 1]].title)}

\* a permission class that lets every caller through (AllowAny)
IsAuthenticated_allow_any(user) == TRUE

\* permission_classes[0]: IsAuthenticated
IsAuthenticated(user) == is_authenticated(user)

\* a lookup by primary key in the whole table, with no permission check
get_object_unrestricted(req, store) ==
    IF req.pk \notin DOMAIN store THEN "NotFound" ELSE "found"

\* the lookup of a detail route: queryset, get_object_or_404, object permission
get_object(req, store) ==
    LET queryset == filter_queryset(get_queryset(req.user, store), store, req.filter) IN
    IF req.pk \notin queryset THEN "NotFound"
    ELSE IF ~has_object_permission(http_method(req.action), req.user, store[req.pk])
         THEN "Forbidden"
    ELSE "found"

---------------------------------------------------------------------------
(* serializers.py *)

\* Meta without read_only_fields: user is writable
read_only_fields_none == {}

\* Meta.read_only_fields
read_only_fields == {"user"}

\* the serialized task: Meta.fields = '__all__'
to_representation(pk, store) ==
    [id |-> pk, title |-> store[pk].title, description |-> store[pk].description,
     status |-> store[pk].status, user |-> store[pk].user]

\* validation of a title without max_length
errors_no_max_length(data, partial) ==
    {f \in {"title"} :
        IF "title" \in DOMAIN data
        THEN data.title = Null \/ Len(data.title) = 0
        ELSE ~partial}
    \cup
    {f \in {"status"} : "status" \in DOMAIN data /\ data.status \notin STATUS_CHOICES}

\* validation of a status without choices
errors_no_choices(data, partial) ==
    {f \in {"title"} :
        IF "title" \in DOMAIN data
        THEN \/ data.title = Null
             \/ Len(data.title) = 0
             \/ Len(data.title) > title_max_length
        ELSE ~partial}

\* validation of a serializer whose three fields are all required on a
\* full update
errors_all_required(data, partial) ==
    {f \in {"title"} :
        IF "title" \in DOMAIN data
        THEN \/ data.title = Null
             \/ Len(data.title) = 0
             \/ Len(data.title) > title_max_length
        ELSE ~partial}
    \cup
    {f \in {"status"} :
        IF "status" \in DOMAIN data THEN data.status \notin STATUS_CHOICES ELSE ~partial}
    \cup
    {f \in {"description"} : "description" \notin DOMAIN data /\ ~partial}

\* validation of a title field declared blank=True
errors_allow_blank(data, partial) ==
    {f \in {"title"} :
        IF "title" \in DOMAIN data
        THEN \/ data.title = Null
             \/ Len(data.title) > title_max_length
        ELSE ~partial}
    \cup
    {f \in {"status"} : "status" \in DOMAIN data /\ data.status \notin STATUS_CHOICES}

\* the fields of the payload that fail validation
errors(data, partial) ==
    {f \in {"title"} :
        IF "title" \in DOMAIN data
        THEN \/ data.title = Null
             \/ Len(data.title) = 0
             \/ Len(data.title) > title_max_length
        ELSE ~partial}
    \cup
    {f \in {"status"} : "status" \in DOMAIN data /\ data.status \notin STATUS_CHOICES}

\* the supplied writable fields
validated_data(data) ==
    [f \in (DOMAIN data \cap PayloadFields) \ read_only_fields |-> data[f]]

\* TasksSerializer.create: Task.objects.create(user=user, **validated_data)
serializer_create(attrs, user) ==
    [title |-> attrs.title,
     description |-> IF "description" \in DOMAIN attrs THEN attrs.description ELSE Null,
     status |-> IF "status" \in DOMAIN attrs THEN attrs.status ELSE status_default,
     user |-> user]

\* an update that rebuilds the row from the payload: omitted fields get
\* their defaults
serializer_update_reset(instance, attrs) ==
    [f \in DOMAIN instance |->
        IF f \in DOMAIN attrs THEN attrs[f]
        ELSE IF f = "status" THEN status_default
        ELSE IF f = "description" THEN Null
        ELSE instance[f]]

\* an update under a forward-only status graph: a Completed task keeps its
\* status
serializer_update_completed_final(instance, attrs) ==
    [f \in DOMAIN instance |->
        IF f = "status" /\ instance.status = "Completed" THEN instance[f]
        ELSE IF f \in DOMAIN attrs THEN attrs[f]
        ELSE instance[f]]

\* ModelSerializer.update: setattr for every validated field, then save
serializer_update(instance, attrs) ==
    [f \in DOMAIN instance |-> IF f \in DOMAIN attrs THEN attrs[f] ELSE instance[f]]

---------------------------------------------------------------------------
(* The viewset's actions as functions of the request and the table:       *)
(* each gives the set of possible outcomes [response, tasks].             *)

Outcome(code, data, errs, store) ==
    [response |-> [code |-> code, data |-> data, errors |-> errs], tasks |-> store]

list(req, store) ==
    IF ~IsAuthenticated(req.user)
    THEN {Outcome("Unauthenticated", <<>>, {}, store)}
    ELSE LET queryset == filter_queryset(get_queryset(req.user, store), store, req.filter) IN
         {Outcome("OK", [i \in DOMAIN s |-> to_representation(s[i], store)], {}, store) :
             s \in order_by_title(queryset, store)}

retrieve(req, store) ==
    IF ~IsAuthenticated(req.user)
    THEN {Outcome("Unauthenticated", <<>>, {}, store)}
    ELSE LET found == get_object(req, store) IN
         IF found # "found"
         THEN {Outcome(found, <<>>, {}, store)}
         ELSE {Outcome("OK", <<to_representation(req.pk, store)>>, {}, store)}

\* create that takes the owner from the payload when the payload names one
create_owner_from_payload(req, store, pk) ==
    IF ~IsAuthenticated(req.user)
    THEN {Outcome("Unauthenticated", <<>>, {}, store)}
    ELSE IF errors(req.data, FALSE) # {}
         THEN {Outcome("ValidationError", <<>>, errors(req.data, FALSE), store)}
    ELSE LET owner == IF "user" \in DOMAIN req.data THEN req.data.user ELSE req.user
             row == serializer_create(validated_data(req.data), owner)
             saved == [k \in DOMAIN store \cup {pk} |-> IF k = pk THEN row ELSE store[k]]
         IN {Outcome("Created", <<to_representation(pk, saved)>>, {}, saved)}

create(req, store, pk) ==
    IF ~IsAuthenticated(req.user)
    THEN {Outcome("Unauthenticated", <<>>, {}, store)}
    ELSE IF errors(req.data, FALSE) # {}
         THEN {Outcome("ValidationError", <<>>, errors(req.data, FALSE), store)}
    ELSE LET row == serializer_create(validated_data(req.data), req.user)
             saved == [k \in DOMAIN store \cup {pk} |-> IF k = pk THEN row ELSE store[k]]
         IN {Outcome("Created", <<to_representation(pk, saved)>>, {}, saved)}

\* an update that validates the payload before it looks the task up
update_validates_first(req, store) ==
    IF ~IsAuthenticated(req.user)
    THEN {Outcome("Unauthenticated", <<>>, {}, store)}
    ELSE LET found == get_object(req, store)
             partial == req.action = "partial_update"
         IN
         IF errors(req.data, partial) # {}
         THEN {Outcome("ValidationError", <<>>, errors(req.data, partial), store)}
         ELSE IF found # "found"
              THEN {Outcome(found, <<>>, {}, store)}
         ELSE LET row == serializer_update(store[req.pk], validated_data(req.data))
                  saved == [store EXCEPT ![req.pk] = row]
              IN {Outcome("OK", <<to_representation(req.pk, saved)>>, {}, saved)}

update(req, store) ==
    IF ~IsAuthenticated(req.user)
    THEN {Outcome("Unauthenticated", <<>>, {}, store)}
    ELSE LET found == get_object(req, store)
             partial == req.action = "partial_update"
         IN
         IF found # "found"
         THEN {Outcome(found, <<>>, {}, store)}
         ELSE IF errors(req.data, partial) # {}
              THEN {Outcome("ValidationError", <<>>, errors(req.data, partial), store)}
         ELSE LET row == serializer_update(store[req.pk], validated_data(req.data))
                  saved == [store EXCEPT ![req.pk] = row]
              IN {Outcome("OK", <<to_representation(req.pk, saved)>>, {}, saved)}

\* destroy that answers success and leaves the row in the table
destroy_keeps_row(req, store) ==
    IF ~IsAuthenticated(req.user)
    THEN {Outcome("Unauthenticated", <<>>, {}, store)}
    ELSE LET found == get_object(req, store) IN
         IF found # "found"
         THEN {Outcome(found, <<>>, {}, store)}
         ELSE {Outcome("NoContent", <<>>, {}, store)}

\* destroy that deletes the whole queryset of the caller, not the instance
destroy_queryset(req, store) ==
    IF ~IsAuthenticated(req.user)
    THEN {Outcome("Unauthenticated", <<>>, {}, store)}
    ELSE LET found == get_object(req, store) IN
         IF found # "found"
         THEN {Outcome(found, <<>>, {}, store)}
         ELSE {Outcome("NoContent", <<>>, {},
                       [k \in DOMAIN store \ get_queryset(req.user, store) |-> store[k]])}

destroy(req, store) ==
    IF ~IsAuthenticated(req.user)
    THEN {Outcome("Unauthenticated", <<>>, {}, store)}
    ELSE LET found == get_object(req, store) IN
         IF found # "found"
         THEN {Outcome(found, <<>>, {}, store)}
         ELSE {Outcome("NoContent", <<>>, {}, [k \in DOMAIN store \ {req.pk} |-> store[k]])}

\* the router: the action of a request on the list or a detail route
dispatch(req, store) ==
    CASE req.action = "list" -> list(req, store)
      [] req.action = "retrieve" -> retrieve(req, store)
      [] req.action \in {"update", "partial_update"} -> update(req, store)
      [] req.action = "destroy" -> destroy(req, store)

---------------------------------------------------------------------------
(* Requests *)

ListRequests ==
    [action : {"list"}, user : Callers, pk : {0}, data : {EmptyPayload}, filter : Filters]

DetailRequests(action, payloads) ==
    [action : {action}, user : Callers, pk : Ids, data : payloads, filter : {NoFilter}]

CreateRequests ==
    [action : {"create"}, user : Callers, pk : {0}, data : Payloads, filter : {NoFilter}]

---------------------------------------------------------------------------
(* Init *)

\* the request-handling workers (threads or processes of the server)
Workers == {"w1", "w2"}

\* placeholder for the instance of a worker that has read none
NoInstance ==
    [title |-> Blank, description |-> Null, status |-> status_default, user |-> AnonymousUser]

\* a worker that is handling no update
NoInflight == [phase |-> "idle", request |-> NoRequest, instance |-> NoInstance]

Init ==
    /\ tasks = [pk \in {} |-> Null]
    /\ nextId = 1
    /\ request = NoRequest
    /\ response = NoResponse
    /\ inflight = [w \in Workers |-> NoInflight]

---------------------------------------------------------------------------
(* Actions: one per route of the viewset *)

Handle(req, outcomes) ==
    /\ request = NoRequest
    /\ request' = req
    /\ \E o \in outcomes :
          /\ response' = o.response
          /\ tasks' = o.tasks
    /\ UNCHANGED inflight

List ==
    \E req \in ListRequests :
        /\ Handle(req, list(req, tasks))
        /\ UNCHANGED nextId

Retrieve ==
    \E req \in DetailRequests("retrieve", {EmptyPayload}) :
        /\ Handle(req, retrieve(req, tasks))
        /\ UNCHANGED nextId

Create ==
    /\ nextId <= MaxId
    /\ \E req \in CreateRequests :
        /\ Handle(req, create(req, tasks, nextId))
        /\ nextId' = IF response'.code = "Created" THEN nextId + 1 ELSE nextId

Update ==
    \E req \in DetailRequests("update", Payloads) :
        /\ Handle(req, update(req, tasks))
        /\ UNCHANGED nextId

PartialUpdate ==
    \E req \in DetailRequests("partial_update", Payloads) :
        /\ Handle(req, update(req, tasks))
        /\ UNCHANGED nextId

Destroy ==
    \E req \in DetailRequests("destroy", {EmptyPayload}) :
        /\ Handle(req, destroy(req, tasks))
        /\ UNCHANGED nextId

\* the response is handed back to the client; the request is over
Return ==
    /\ request # NoRequest
    /\ request' = NoRequest
    /\ response' = NoResponse
    /\ UNCHANGED <<tasks, nextId, inflight>>

Next ==
    \/ List
    \/ Retrieve
    \/ Create
    \/ Update
    \/ PartialUpdate
    \/ Destroy
    \/ Return

Spec == Init /\ [][Next]_vars

---------------------------------------------------------------------------
(* Field values and validation: the requests of one user, the owner of     *)
(* every task, with payloads that cover each field's accepted and rejected *)
(* values.                                                                 *)

\* a description
D1 == <<7>>

FieldCallers == {"alice"}

FieldPayloads ==
    { EmptyPayload,
      [title |-> T1],
      [title |-> T2, description |-> D1, status |-> "Completed"],
      [title |-> T1, description |-> Null, status |-> "New"],
      [title |-> T2, description |-> D1],
      [status |-> "New"],
      [status |-> "In Progress"],
      [status |-> "Completed"],
      [description |-> D1],
      [description |-> Null],
      [title |-> Blank],
      [title |-> Full],
      [title |-> TooLong],
      [title |-> T1, status |-> "Bogus"],
      [status |-> "Bogus"] }

FieldRequests(action, pks, payloads) ==
    [action : {action}, user : FieldCallers, pk : pks, data : payloads,
     filter : {NoFilter}]

FieldRetrieve ==
    \E req \in FieldRequests("retrieve", Ids, {EmptyPayload}) :
        /\ Handle(req, retrieve(req, tasks))
        /\ UNCHANGED nextId

FieldCreate ==
    /\ nextId <= MaxId
    /\ \E req \in FieldRequests("create", {0}, FieldPayloads) :
        /\ Handle(req, create(req, tasks, nextId))
        /\ nextId' = IF response'.code = "Created" THEN nextId + 1 ELSE nextId

FieldUpdate ==
    \E req \in FieldRequests("update", Ids, FieldPayloads) :
        /\ Handle(req, update(req, tasks))
        /\ UNCHANGED nextId

FieldPartialUpdate ==
    \E req \in FieldRequests("partial_update", Ids, FieldPayloads) :
        /\ Handle(req, update(req, tasks))
        /\ UNCHANGED nextId

FieldDestroy ==
    \E req \in FieldRequests("destroy", Ids, {EmptyPayload}) :
        /\ Handle(req, destroy(req, tasks))
        /\ UNCHANGED nextId

FieldNext ==
    \/ FieldRetrieve
    \/ FieldCreate
    \/ FieldUpdate
    \/ FieldPartialUpdate
    \/ FieldDestroy
    \/ Return

FieldSpec == Init /\ [][FieldNext]_vars

---------------------------------------------------------------------------
(* ConcSpec: two workers handle requests of one owner at the same time.   *)
(* The viewset and the serializer take no lock and open no transaction:   *)
(* an update is get_object (a SELECT), validation, then                   *)
(* serializer.save() -> instance.save(), which writes every column of the *)
(* instance read earlier.  Create and destroy are single statements.      *)

ConcCallers == {"alice"}

ConcCreatePayloads == { [title |-> T1] }

ConcUpdatePayloads ==
    { [title |-> T2], [status |-> "Completed"], [title |-> T1, status |-> "New"] }

ConcUpdateRequests ==
    [action : {"update", "partial_update"}, user : ConcCallers, pk : Ids,
     data : ConcUpdatePayloads, filter : {NoFilter}]

\* Model.save(): UPDATE of all columns where pk matches, INSERT of the row
\* when no row matched
save(store, pk, row) ==
    IF pk \in DOMAIN store
    THEN [store EXCEPT ![pk] = row]
    ELSE [k \in DOMAIN store \cup {pk} |-> IF k = pk THEN row ELSE store[k]]

\* UpdateModelMixin.update, first half: permissions, get_object and
\* is_valid; the worker now holds the instance it read
BeginUpdate(w) ==
    /\ inflight[w].phase = "idle"
    /\ \E req \in ConcUpdateRequests :
          /\ IsAuthenticated(req.user)
          /\ get_object(req, tasks) = "found"
          /\ errors(req.data, req.action = "partial_update") = {}
          /\ inflight' = [inflight EXCEPT ![w] =
                 [phase |-> "read", request |-> req, instance |-> tasks[req.pk]]]
    /\ UNCHANGED <<tasks, nextId, request, response>>

\* UpdateModelMixin.update, second half: serializer.save() sets the
\* validated fields on the instance read earlier and saves it
Save(w) ==
    /\ inflight[w].phase = "read"
    /\ LET req == inflight[w].request
           row == serializer_update(inflight[w].instance, validated_data(req.data))
       IN tasks' = save(tasks, req.pk, row)
    /\ inflight' = [inflight EXCEPT ![w] = NoInflight]
    /\ UNCHANGED <<nextId, request, response>>

ConcCreate ==
    /\ nextId <= MaxId
    /\ \E req \in [action : {"create"}, user : ConcCallers, pk : {0},
                   data : ConcCreatePayloads, filter : {NoFilter}] :
          \E o \in create(req, tasks, nextId) :
              /\ o.response.code = "Created"
              /\ tasks' = o.tasks
    /\ nextId' = nextId + 1
    /\ UNCHANGED <<request, response, inflight>>

ConcDestroy ==
    /\ \E req \in [action : {"destroy"}, user : ConcCallers, pk : Ids,
                   data : {EmptyPayload}, filter : {NoFilter}] :
          \E o \in destroy(req, tasks) :
              /\ o.response.code = "NoContent"
              /\ tasks' = o.tasks
    /\ UNCHANGED <<nextId, request, response, inflight>>

ConcNext ==
    \/ ConcCreate
    \/ ConcDestroy
    \/ \E w \in Workers : BeginUpdate(w)
    \/ \E w \in Workers : Save(w)

ConcSpec == Init /\ [][ConcNext]_vars

---------------------------------------------------------------------------
(* Properties *)

\* the primary keys of the tasks in the body of the response
Listed == {response.data[i].id : i \in DOMAIN response.data}

\* the request in flight was answered with `code`
Answered(action, code) == request.action = action /\ response.code = code

Regular(user) == is_authenticated(user) /\ ~is_staff(user)

\* C1: a list (no status filter) answered to a regular user U holds a stored
\* task if and only if U owns it.
C1_ListOwnTasksOnly ==
    (Answered("list", "OK") /\ Regular(request.user) /\ request.filter = NoFilter)
        => \A pk \in DOMAIN tasks : (pk \in Listed <=> tasks[pk].user = request.user)

\* a regular user listed while owning one task and another user owning the other
C1_Witness ==
    /\ Answered("list", "OK") /\ Regular(request.user) /\ request.filter = NoFilter
    /\ \E p, q \in DOMAIN tasks :
          /\ tasks[p].user = request.user
          /\ tasks[q].user # request.user
          /\ Listed = {p}

\* C2: a list with no status filter answered to an administrator holds every
\* stored task, whoever owns it.
C2_AdminListsAll ==
    (Answered("list", "OK") /\ is_staff(request.user) /\ request.filter = NoFilter)
        => /\ Listed = DOMAIN tasks
           /\ Len(response.data) = Cardinality(DOMAIN tasks)
           /\ \A i \in DOMAIN response.data :
                 response.data[i] = to_representation(response.data[i].id, tasks)

\* the administrator listed the tasks of two different regular users
C2_Witness ==
    /\ Answered("list", "OK") /\ is_staff(request.user) /\ request.filter = NoFilter
    /\ \E p, q \in Listed :
          /\ Regular(tasks[p].user) /\ Regular(tasks[q].user)
          /\ tasks[p].user # tasks[q].user

\* C3: getOne by an authenticated caller returns the task if and only if it
\* exists and the caller is its owner or an administrator; otherwise NotFound.
C3_GetOne ==
    (request.action = "retrieve" /\ is_authenticated(request.user))
        => LET visible == /\ request.pk \in DOMAIN tasks
                          /\ \/ tasks[request.pk].user = request.user
                             \/ is_staff(request.user)
           IN IF visible
              THEN response = [code |-> "OK",
                               data |-> <<to_representation(request.pk, tasks)>>,
                               errors |-> {}]
              ELSE response = [code |-> "NotFound", data |-> <<>>, errors |-> {}]

\* a regular user asked for a task that exists and belongs to someone else
C3_Witness ==
    /\ Answered("retrieve", "NotFound") /\ Regular(request.user)
    /\ request.pk \in DOMAIN tasks
    /\ tasks[request.pk].user # request.user

\* the rows of the table that `user` owns
OwnRows(store, user) ==
    [pk \in {k \in DOMAIN store : store[k].user = user} |-> store[pk]]

\* the list, getOne, update and delete requests `user` can issue
RequestsBy(user) ==
    {req \in ListRequests
             \cup DetailRequests("retrieve", {EmptyPayload})
             \cup DetailRequests("update", Payloads)
             \cup DetailRequests("partial_update", Payloads)
             \cup DetailRequests("destroy", {EmptyPayload}) : req.user = user}

\* the responses a request can receive from a table
Responses(req, store) == {o.response : o \in dispatch(req, store)}

\* C4: information hiding.  Whenever a regular user C is served, every list,
\* getOne, update and delete request C can issue receives from the table the
\* responses it receives from the table cut down to C's own tasks.  Two
\* tables that agree on C's tasks and differ only in other users' tasks cut
\* down to the same table, so C receives the same responses from both.
C4_InformationHiding ==
    Regular(request.user) =>
        \A req \in RequestsBy(request.user) :
            Responses(req, tasks) = Responses(req, OwnRows(tasks, request.user))

\* a regular user who owns a task asked to read, change or delete an existing
\* task of someone else and got the answer of the table without that task
C4_Witness ==
    /\ Regular(request.user)
    /\ request.action \in {"retrieve", "update", "partial_update", "destroy"}
    /\ request.pk \in DOMAIN tasks
    /\ tasks[request.pk].user # request.user
    /\ \E pk \in DOMAIN tasks : tasks[pk].user = request.user
    /\ OwnRows(tasks, request.user) # tasks
    /\ response \in Responses(request, OwnRows(tasks, request.user))

\* C5: a successful create by caller C stores exactly one new task, owned by
\* C, whatever the payload.
C5_CreateOwnedByCaller ==
    [][(request'.action = "create" /\ response'.code = "Created")
          => \E pk \in DOMAIN tasks' :
                /\ pk \notin DOMAIN tasks
                /\ DOMAIN tasks' = DOMAIN tasks \cup {pk}
                /\ tasks'[pk].user = request'.user
                /\ \A k \in DOMAIN tasks : tasks'[k] = tasks[k]]_vars

\* a create whose payload names another user succeeded for the caller
C5_Witness ==
    /\ Answered("create", "Created")
    /\ "user" \in DOMAIN request.data
    /\ request.data.user # request.user
    /\ response.data[1].user = request.user
    /\ tasks[response.data[1].id].user = request.user

\* C6: ownership is write-once.  No step changes the owner of a stored task,
\* and a primary key is never handed out twice, so every stored task has the
\* owner it was created with.
C6_OwnerWriteOnce ==
    [][/\ \A pk \in DOMAIN tasks \cap DOMAIN tasks' : tasks'[pk].user = tasks[pk].user
       /\ \A pk \in DOMAIN tasks' \ DOMAIN tasks : pk = nextId /\ nextId' = nextId + 1
       /\ nextId' >= nextId
       /\ \A pk \in DOMAIN tasks : pk < nextId]_vars

\* an update by the owner whose payload names another user went through
C6_Witness ==
    /\ request.action \in {"update", "partial_update"}
    /\ response.code = "OK"
    /\ "user" \in DOMAIN request.data
    /\ request.data.user # request.user
    /\ tasks[request.pk].user = request.user

Mutations == {"update", "partial_update", "destroy"}

\* the step handles a mutation whose caller does not own the existing target
MutationOfUnowned ==
    /\ request'.action \in Mutations
    /\ is_authenticated(request'.user)
    /\ request'.pk \in DOMAIN tasks
    /\ tasks[request'.pk].user # request'.user

\* C7 as stated: an administrator who does not own an existing task updates
\* it with a valid payload (the supplied fields are applied) and deletes it
\* (the task is removed).
C7_AdminCanMutate ==
    [][(MutationOfUnowned /\ is_staff(request'.user))
          => IF request'.action = "destroy"
             THEN response'.code = "NoContent" /\ request'.pk \notin DOMAIN tasks'
             ELSE errors(request'.data, request'.action = "partial_update") = {}
                     => /\ response'.code = "OK"
                        /\ \A f \in DOMAIN validated_data(request'.data) :
                              tasks'[request'.pk][f] = request'.data[f]]_vars

\* C7 amended: an administrator who does not own an existing task can read
\* it (getOne returns it), but an update or delete of it by the administrator
\* fails with Forbidden and leaves the table unchanged.
C7_AdminReadOnly ==
    [][/\ (MutationOfUnowned /\ is_staff(request'.user))
            => response'.code = "Forbidden" /\ tasks' = tasks
       /\ (/\ request'.action = "retrieve"
           /\ is_staff(request'.user)
           /\ request'.pk \in DOMAIN tasks)
            => /\ response'.code = "OK"
               /\ response'.data = <<to_representation(request'.pk, tasks)>>
               /\ tasks' = tasks]_vars

\* the administrator tried to change or delete a regular user's task
C7_Witness ==
    /\ request.action \in Mutations
    /\ is_staff(request.user)
    /\ response.code = "Forbidden"
    /\ request.pk \in DOMAIN tasks
    /\ Regular(tasks[request.pk].user)

\* C8: an update (full or partial) or delete by an authenticated caller who
\* is neither the owner nor an administrator never succeeds and leaves the
\* table, the target task included, exactly as it was.
C8_NonOwnerCannotMutate ==
    [][(MutationOfUnowned /\ ~is_staff(request'.user))
          => /\ response'.code \notin {"OK", "NoContent"}
             /\ tasks' = tasks
             /\ request'.pk \in DOMAIN tasks'
             /\ tasks'[request'.pk] = tasks[request'.pk]]_vars

\* a regular user sent a valid full update to another user's task, which is
\* still stored with other values than the payload's
C8_Witness ==
    /\ request.action = "update"
    /\ Regular(request.user)
    /\ errors(request.data, FALSE) = {}
    /\ request.pk \in DOMAIN tasks
    /\ tasks[request.pk].user # request.user
    /\ tasks[request.pk].title # request.data.title
    /\ response.code \notin {"OK", "NoContent", "none"}

\* C9: update and delete by a regular user B on an existing task of another
\* user both fail with NotFound, the very response an absent id receives.
C9_NonOwnerGetsNotFound ==
    [][(MutationOfUnowned /\ ~is_staff(request'.user))
          => /\ response' = [code |-> "NotFound", data |-> <<>>, errors |-> {}]
             /\ \A absent \in Ids \ DOMAIN tasks :
                   response' \in Responses([request' EXCEPT !.pk = absent], tasks)]_vars

\* a regular user's delete of another user's task was answered NotFound while
\* some id of the table is absent
C9_Witness ==
    /\ Answered("destroy", "NotFound")
    /\ Regular(request.user)
    /\ request.pk \in DOMAIN tasks
    /\ tasks[request.pk].user # request.user
    /\ Ids \ DOMAIN tasks # {}

\* C10 as stated: Forbidden answers only an update or delete by an
\* authenticated caller who is neither the owner nor an administrator.
C10_ForbiddenOnlyForNonOwnerNonAdmin ==
    response.code = "Forbidden"
        => /\ request.action \in Mutations
           /\ is_authenticated(request.user)
           /\ ~is_staff(request.user)
           /\ request.pk \in DOMAIN tasks
           /\ tasks[request.pk].user # request.user

\* C10 amended: Forbidden answers only an update or delete of an existing
\* task by an authenticated caller who is not its owner, and that caller is
\* an administrator; no request by an owner and no request by a regular user
\* receives Forbidden.
C10_ForbiddenOnlyForNonOwner ==
    response.code = "Forbidden"
        => /\ request.action \in Mutations
           /\ is_authenticated(request.user)
           /\ is_staff(request.user)
           /\ request.pk \in DOMAIN tasks
           /\ tasks[request.pk].user # request.user

\* a delete was answered Forbidden
C10_Witness ==
    /\ Answered("destroy", "Forbidden")
    /\ request.pk \in DOMAIN tasks

\* the primary keys handed out and no longer stored: the deleted tasks
Deleted == (1..(nextId - 1)) \ DOMAIN tasks

RetrieveBy(user, pk) ==
    [action |-> "retrieve", user |-> user, pk |-> pk,
     data |-> EmptyPayload, filter |-> NoFilter]

ListBy(user, filter) ==
    [action |-> "list", user |-> user, pk |-> 0,
     data |-> EmptyPayload, filter |-> filter]

\* C12: a successful delete removes the task; a deleted task never comes
\* back, and from then on getOne on its id answers NotFound to every caller
\* and no caller's list holds it.
C12_DeletedStaysGone ==
    [][/\ (request'.action = "destroy" /\ response'.code = "NoContent")
            => /\ request'.pk \in DOMAIN tasks
               /\ tasks[request'.pk].user = request'.user
               /\ request'.pk \in Deleted'
       /\ \A pk \in Deleted : pk \in Deleted'
       /\ \A pk \in Deleted', user \in Users :
             /\ Responses(RetrieveBy(user, pk), tasks')
                    = {[code |-> "NotFound", data |-> <<>>, errors |-> {}]}
             /\ \A filter \in Filters :
                   \A r \in Responses(ListBy(user, filter), tasks') :
                       \A i \in DOMAIN r.data : r.data[i].id # pk]_vars

\* the administrator asked for a deleted task after a later task was created
C12_Witness ==
    /\ Answered("retrieve", "NotFound")
    /\ is_staff(request.user)
    /\ request.pk \in Deleted
    /\ \E pk \in DOMAIN tasks : pk > request.pk

\* the primary keys of the caller's list without a status filter
Unfiltered(user) ==
    UNION {{r.data[i].id : i \in DOMAIN r.data} :
              r \in Responses(ListBy(user, NoFilter), tasks)}

\* C13: for every caller and every status S, the list filtered by S holds
\* exactly the tasks of the caller's unfiltered list whose status is S, each
\* once and as stored.
C13_FilterByStatus ==
    (Answered("list", "OK") /\ request.filter \in STATUS_CHOICES)
        => /\ Listed = {pk \in Unfiltered(request.user) :
                           tasks[pk].status = request.filter}
           /\ Len(response.data) = Cardinality(Listed)
           /\ \A i \in DOMAIN response.data :
                 response.data[i] = to_representation(response.data[i].id, tasks)

\* a filtered list left out one of the caller's own tasks and kept the other
C13_Witness ==
    /\ Answered("list", "OK") /\ request.filter \in STATUS_CHOICES
    /\ Regular(request.user)
    /\ \E p, q \in DOMAIN tasks :
          /\ tasks[p].user = request.user /\ tasks[q].user = request.user
          /\ tasks[p].status = request.filter
          /\ tasks[q].status # request.filter
          /\ Listed = {p}

\* C14: every list result, for every caller and with or without a status
\* filter, is ascending in title; the administrator's list holds the tasks
\* of all users in that one order.
C14_ListOrderedByTitle ==
    Answered("list", "OK")
        => /\ \A i, j \in DOMAIN response.data :
                 i < j => title_le(response.data[i].title, response.data[j].title)
           /\ is_staff(request.user)
                 => Listed = filter_queryset(DOMAIN tasks, tasks, request.filter)

\* the administrator's list holds the tasks of two regular users, the later
\* created one first because its title is smaller
C14_Witness ==
    /\ Answered("list", "OK") /\ is_staff(request.user)
    /\ Len(response.data) = 2
    /\ response.data[1].id > response.data[2].id
    /\ response.data[1].title # response.data[2].title
    /\ response.data[1].user # response.data[2].user
    /\ Regular(response.data[1].user) /\ Regular(response.data[2].user)

WritableFields == {"title", "description", "status"}

\* C11: a successful update by the owner changes exactly the supplied fields
\* among title, description and status: a supplied field holds the supplied
\* value, an omitted field keeps its value, the owner stays, and getOne by
\* the owner then returns the task with these values.
C11_UpdateSuppliedFieldsOnly ==
    [][(/\ request'.action \in {"update", "partial_update"}
        /\ response'.code = "OK")
          => LET pk == request'.pk
                 data == request'.data
             IN /\ pk \in DOMAIN tasks /\ pk \in DOMAIN tasks'
                /\ tasks[pk].user = request'.user
                /\ \A f \in WritableFields :
                      tasks'[pk][f] = IF f \in DOMAIN data THEN data[f] ELSE tasks[pk][f]
                /\ tasks'[pk].user = tasks[pk].user
                /\ response'.data = <<to_representation(pk, tasks')>>
                /\ Responses(RetrieveBy(request'.user, pk), tasks')
                       = {[code |-> "OK",
                           data |-> <<[id |-> pk,
                                       title |-> tasks'[pk].title,
                                       description |-> tasks'[pk].description,
                                       status |-> tasks'[pk].status,
                                       user |-> tasks'[pk].user]>>,
                           errors |-> {}]}]_vars

\* a partial update of the status alone went through on a task whose title
\* and description are not the ones a new task gets
C11_Witness ==
    /\ Answered("partial_update", "OK")
    /\ request.data = [status |-> "Completed"]
    /\ tasks[request.pk].status = "Completed"
    /\ tasks[request.pk].description = D1
    /\ tasks[request.pk].title = T2

\* the payload has no title, an empty title or a title over max_length
TitleRejected(data) ==
    \/ "title" \notin DOMAIN data
    \/ Len(data.title) = 0
    \/ Len(data.title) > 255

\* C15: a create whose title is missing, empty or longer than 255
\* characters fails with ValidationError naming the title, and the table
\* and the key counter are as before.
C15_CreateRejectsBadTitle ==
    [][(/\ request'.action = "create"
        /\ is_authenticated(request'.user)
        /\ TitleRejected(request'.data))
          => /\ response'.code = "ValidationError"
             /\ "title" \in response'.errors
             /\ response'.data = <<>>
             /\ tasks' = tasks
             /\ nextId' = nextId]_vars

\* a create with a title of 256 characters was rejected while a task with a
\* title of 255 characters is stored
C15_Witness ==
    /\ Answered("create", "ValidationError")
    /\ "title" \in DOMAIN request.data
    /\ Len(request.data.title) = 256
    /\ \E pk \in DOMAIN tasks : Len(tasks[pk].title) = 255

\* C16: a create, or an update by the owner of an existing task, that
\* supplies a status other than New, In Progress and Completed fails with
\* ValidationError naming the status; nothing is created and the table is as
\* before.
C16_RejectsUnknownStatus ==
    [][(/\ request'.action \in {"create", "update", "partial_update"}
        /\ is_authenticated(request'.user)
        /\ "status" \in DOMAIN request'.data
        /\ request'.data.status \notin {"New", "In Progress", "Completed"}
        /\ request'.action # "create"
              => /\ request'.pk \in DOMAIN tasks
                 /\ tasks[request'.pk].user = request'.user)
          => /\ response'.code = "ValidationError"
             /\ "status" \in response'.errors
             /\ response'.data = <<>>
             /\ tasks' = tasks
             /\ nextId' = nextId]_vars

\* a full update with a valid new title and an unknown status was rejected
\* and the task keeps its old title
C16_Witness ==
    /\ Answered("update", "ValidationError")
    /\ request.data = [title |-> T1, status |-> "Bogus"]
    /\ response.errors = {"status"}
    /\ request.pk \in DOMAIN tasks
    /\ tasks[request.pk].user = request.user
    /\ tasks[request.pk].title = T2

\* C17: a create that supplies a valid title and omits status and
\* description succeeds, and the stored task has status New and a null
\* description.
C17_CreateDefaults ==
    (/\ request.action = "create"
     /\ is_authenticated(request.user)
     /\ "title" \in DOMAIN request.data
     /\ Len(request.data.title) \in 1..255
     /\ "status" \notin DOMAIN request.data
     /\ "description" \notin DOMAIN request.data)
        => /\ response.code = "Created"
           /\ Len(response.data) = 1
           /\ LET pk == response.data[1].id IN
                 /\ pk \in DOMAIN tasks
                 /\ tasks[pk].title = request.data.title
                 /\ tasks[pk].status = "New"
                 /\ tasks[pk].description = Null
                 /\ response.data[1].status = "New"
                 /\ response.data[1].description = Null

\* a create with only a title succeeded while the other stored task has
\* another status and a description
C17_Witness ==
    /\ Answered("create", "Created")
    /\ request.data = [title |-> T1]
    /\ tasks[response.data[1].id].status = "New"
    /\ tasks[response.data[1].id].description = Null
    /\ \E pk \in DOMAIN tasks : tasks[pk].status # "New" /\ tasks[pk].description = D1

\* C18: every task operation (list, retrieve, create, update,
\* partial_update, destroy) issued by a caller without a valid identity is
\* answered Unauthenticated with no task data, and the task store is left
\* as it was.
C18_Unauthenticated ==
    [][(request'.action # "none" /\ ~is_authenticated(request'.user))
          => /\ response' = [code |-> "Unauthenticated", data |-> <<>>, errors |-> {}]
             /\ tasks' = tasks
             /\ nextId' = nextId]_vars

\* an anonymous caller was refused on an existing task while tasks are stored
C18_Witness ==
    /\ request.user = AnonymousUser
    /\ request.action \in {"update", "destroy"}
    /\ request.pk \in DOMAIN tasks
    /\ response.code = "Unauthenticated"
    /\ Cardinality(DOMAIN tasks) = MaxId

\* the owner's request to set the status of task pk to s, as a PATCH of
\* the status alone or as a PUT that repeats the title
StatusUpdates(pk, s) ==
    { [action |-> "partial_update", user |-> tasks[pk].user, pk |-> pk,
       data |-> [status |-> s], filter |-> NoFilter],
      [action |-> "update", user |-> tasks[pk].user, pk |-> pk,
       data |-> [title |-> tasks[pk].title, status |-> s], filter |-> NoFilter] }

\* C19: the status has no transition graph: whatever status a stored task
\* has (Completed included), its owner's update to any of the three status
\* values (the current one included) succeeds and stores that value, the
\* other fields unchanged.
C19_AnyStatusTransition ==
    \A pk \in DOMAIN tasks : \A s \in STATUS_CHOICES :
        \A req \in StatusUpdates(pk, s) :
            \A o \in update(req, tasks) :
                /\ o.response.code = "OK"
                /\ o.tasks = [tasks EXCEPT ![pk].status = s]
                /\ o.response.data = <<to_representation(pk, o.tasks)>>

\* the owner's status update was answered OK and left the task In Progress
\* (a status only an update can give here), while a Completed task is stored
C19_Witness ==
    /\ request.action \in {"update", "partial_update"}
    /\ "status" \in DOMAIN request.data
    /\ response.code = "OK"
    /\ request.pk \in DOMAIN tasks
    /\ tasks[request.pk].user = request.user
    /\ tasks[request.pk].status = "In Progress"
    /\ \E pk \in DOMAIN tasks : tasks[pk].status = "Completed"

\* the fields of a stored task
TaskFields == {"title", "description", "status", "user"}

\* C20: no lost update: when updates of the same task run concurrently,
\* each as a read followed by a write, no write puts a stale value over
\* another request's change: the write of an update leaves every field its
\* request did not supply as it is in the store at that moment, so the
\* stored task reflects both updates.
C20_NoLostUpdate ==
    [][\A w \in Workers :
          (/\ inflight[w].phase = "read"
           /\ inflight'[w].phase = "idle"
           /\ inflight[w].request.pk \in DOMAIN tasks)
             => LET req == inflight[w].request IN
                /\ req.pk \in DOMAIN tasks'
                /\ \A f \in TaskFields \ DOMAIN req.data :
                      tasks'[req.pk][f] = tasks[req.pk][f]]_vars

\* the step handles a request on an existing task by an authenticated
\* caller who does not own it
DetailOfUnowned ==
    /\ request'.action \in {"retrieve"} \cup Mutations
    /\ is_authenticated(request'.user)
    /\ request'.pk \in DOMAIN tasks
    /\ tasks[request'.pk].user # request'.user

\* a request was denied: refused by the lookup or by the object permission
Denied(resp) == resp.code \in {"NotFound", "Forbidden"}

OwnerPut ==
    /\ request'.action = "update"
    /\ request'.pk \in DOMAIN tasks
    /\ tasks[request'.pk].user = request'.user
    /\ errors(request'.data, TRUE) = {}

\* the same payload sent as a partial update (PATCH) succeeds
PatchSucceeds(req, store) ==
    \A o \in update([req EXCEPT !.action = "partial_update"], store) : o.response.code = "OK"

\* C22 as stated: a full update by the owner requires all of title,
\* description and status: when the payload omits one of them the request
\* fails with ValidationError and the task is unchanged, while a partial
\* update with the same payload succeeds.
C22_PutRequiresAllFields ==
    [][(OwnerPut /\ ~(WritableFields \subseteq DOMAIN request'.data))
          => /\ response'.code = "ValidationError"
             /\ tasks' = tasks
             /\ PatchSucceeds(request', tasks)]_vars

\* C22 amended: a full update by the owner requires the title only.  When
\* the payload omits the title the request fails with ValidationError on
\* title and the task is unchanged, while a partial update with the same
\* payload succeeds; when it supplies the title and omits description or
\* status it succeeds, and the omitted fields keep their values.
C22_PutRequiresTitleOnly ==
    [][(OwnerPut /\ ~(WritableFields \subseteq DOMAIN request'.data))
          => IF "title" \notin DOMAIN request'.data
             THEN /\ response' = [code |-> "ValidationError", data |-> <<>>, errors |-> {"title"}]
                  /\ tasks' = tasks
                  /\ PatchSucceeds(request', tasks)
             ELSE /\ response'.code = "OK"
                  /\ \A f \in WritableFields \ DOMAIN request'.data :
                        tasks'[request'.pk][f] = tasks[request'.pk][f]
                  /\ tasks'[request'.pk].title = request'.data.title]_vars

\* a full update with a status and no title was refused on a task that has a
\* description and another status
C22_Witness ==
    /\ Answered("update", "ValidationError")
    /\ request.data = [status |-> "In Progress"]
    /\ response.errors = {"title"}
    /\ request.pk \in DOMAIN tasks
    /\ tasks[request.pk].status = "Completed"
    /\ tasks[request.pk].description = D1

\* the payload of the request fails validation: an empty, over-long or
\* missing title, an unrecognized status
InvalidPayload(req) ==
    \/ "title" \in DOMAIN req.data /\ Len(req.data.title) \notin 1..255
    \/ "title" \notin DOMAIN req.data /\ req.action = "update"
    \/ "status" \in DOMAIN req.data /\ req.data.status \notin {"New", "In Progress", "Completed"}

\* C23: error precedence in update: authentication first, then lookup and
\* visibility, then the object permission, then the payload.  An update of
\* an id that does not exist or that the caller cannot see is answered
\* NotFound also when its payload is invalid, and ValidationError goes only
\* to the owner of the task.
C23_UpdateErrorPrecedence ==
    [][request'.action \in {"update", "partial_update"}
          => LET user == request'.user
                 pk == request'.pk
             IN response'.code =
                   IF ~is_authenticated(user) THEN "Unauthenticated"
                   ELSE IF pk \notin DOMAIN tasks THEN "NotFound"
                   ELSE IF ~is_staff(user) /\ tasks[pk].user # user THEN "NotFound"
                   ELSE IF tasks[pk].user # user THEN "Forbidden"
                   ELSE IF InvalidPayload(request') THEN "ValidationError"
                   ELSE "OK"]_vars

\* a regular user sent an unrecognized status for a task of another user
\* and was answered NotFound
C23_Witness ==
    /\ Answered("partial_update", "NotFound")
    /\ request.data = [status |-> "Bogus"]
    /\ Regular(request.user)
    /\ request.pk \in DOMAIN tasks
    /\ tasks[request.pk].user # request.user

\* C24: a delete that succeeded is permanent under concurrency: when an
\* update has read task t and a delete of t succeeds before the update
\* writes, the write does not bring t back: a deleted id stays out of the
\* store, and getOne on it answers NotFound to every caller.
C24_DeleteIsPermanent ==
    [][\A pk \in Deleted :
          /\ pk \notin DOMAIN tasks'
          /\ \A user \in Users :
                Responses(RetrieveBy(user, pk), tasks')
                    = {[code |-> "NotFound", data |-> <<>>, errors |-> {}]}]_vars

\* C25: stored-task invariant: after any sequence of requests every stored
\* task has a non-empty title of at most 255 characters, a status among
\* New, In Progress and Completed, one owner who is an existing user, and
\* an id of its own: the primary key, one of the ids handed out so far
\* (a create takes a fresh id and never the id of a stored task).
C25_StoredTaskInvariant ==
    /\ DOMAIN tasks \subseteq 1..(nextId - 1)
    /\ \A pk \in DOMAIN tasks :
          /\ Len(tasks[pk].title) \in 1..255
          /\ tasks[pk].status \in {"New", "In Progress", "Completed"}
          /\ tasks[pk].user \in Users
          /\ DOMAIN tasks[pk] = TaskFields

\* an update with an empty or an over-long title, or a create with an
\* unrecognized status, was refused while two tasks of two users are stored
C25_Witness ==
    /\ response.code = "ValidationError"
    /\ request.action \in {"create", "update", "partial_update"}
    /\ request.data \in {[title |-> Blank], [title |-> TooLong], [status |-> "Bogus"]}
    /\ Cardinality({tasks[pk].user : pk \in DOMAIN tasks}) = 2

\* the tasks stored before or after the step, other than task pk, are the
\* same tasks with the same title, description, status and owner
OthersUnchanged(pk) ==
    \A k \in (DOMAIN tasks \cup DOMAIN tasks') \ {pk} :
        /\ k \in DOMAIN tasks
        /\ k \in DOMAIN tasks'
        /\ tasks'[k] = tasks[k]

\* C26: frame: list and getOne change nothing in the task store; a
\* successful create leaves every task stored before unchanged; a
\* successful update or delete of task t leaves every task other than t
\* unchanged.
C26_Frame ==
    [][/\ request'.action \in {"list", "retrieve"}
            => tasks' = tasks /\ nextId' = nextId
       /\ (request'.action = "create" /\ response'.code = "Created")
            => /\ \A k \in DOMAIN tasks : k \in DOMAIN tasks' /\ tasks'[k] = tasks[k]
               /\ DOMAIN tasks' = DOMAIN tasks \cup {nextId}
       /\ (request'.action \in {"update", "partial_update"} /\ response'.code = "OK")
            => /\ OthersUnchanged(request'.pk)
               /\ nextId' = nextId
       /\ (request'.action = "destroy" /\ response'.code = "NoContent")
            => /\ OthersUnchanged(request'.pk)
               /\ nextId' = nextId]_vars

\* a task was deleted while another task of the same owner stays stored
C26_Witness ==
    /\ Answered("destroy", "NoContent")
    /\ \E k \in DOMAIN tasks : k # request.pk /\ tasks[k].user = request.user

=============================================================================
